---- MODULE Spec2Model ----
(***************************************************************************)
(* A model of the polygon splitter of split_geojson_app.py:                *)
(* count_vertices, split_geometry and the worklist loop of                 *)
(* recursive_split, together with the part of shapely the three functions  *)
(* rely on (is_empty, geom_type, bounds, the rings' coords and             *)
(* shapely.ops.split).                                                     *)
(*                                                                         *)
(* Coordinates.  The program computes with IEEE doubles, a finite set of   *)
(* representable values.  A coordinate of the model is an integer number   *)
(* of units of least precision, and a midpoint (a + b)/2 that is not       *)
(* representable is rounded to a representable value, as the floating      *)
(* point division does.                                                    *)
(*                                                                         *)
(* Geometries.  A geometry is a record: a Polygon with an exterior ring,   *)
(* a sequence of interior rings and the flag "valid" (FALSE: GEOS raises   *)
(* a TopologyException when asked to overlay it); a MultiPolygon with a    *)
(* sequence of Polygons; or a Point.  A ring is a closed sequence of       *)
(* coordinate pairs <<x, y>>.                                              *)
(***************************************************************************)
EXTENDS Integers, Sequences, FiniteSets, TLC

\* The largest coordinate of the boxes among the inputs.
MaxCoord == 3

\* The concurrent invocations of recursive_split.
Calls == {"a", "b"}

-----------------------------------------------------------------------------
(* Sequences *)

Last(s) == s[Len(s)]

Front(s) == SubSeq(s, 1, Len(s) - 1)

RECURSIVE SumSeq(_)
\* Python's sum() over a list of integers.
SumSeq(s) == IF s = <<>> THEN 0 ELSE Head(s) + SumSeq(Tail(s))

RECURSIVE Flatten(_)
\* The concatenation of a sequence of sequences.
Flatten(ss) == IF ss = <<>> THEN <<>> ELSE Head(ss) \o Flatten(Tail(ss))

Range(s) == {s[i] : i \in 1..Len(s)}

Min(S) == CHOOSE x \in S : \A y \in S : x <= y

Max(S) == CHOOSE x \in S : \A y \in S : x >= y

Abs(n) == IF n < 0 THEN -n ELSE n

-----------------------------------------------------------------------------
(* shapely geometries *)

Polygon(shell, holes, valid) ==
  [geom_type |-> "Polygon", exterior |-> shell, interiors |-> holes,
   valid |-> valid]

MultiPolygon(polygons) == [geom_type |-> "MultiPolygon", geoms |-> polygons]

Point(coords) == [geom_type |-> "Point", coords |-> coords]

\* geometry.is_empty
is_empty(geometry) ==
  CASE geometry.geom_type = "Polygon" -> geometry.exterior = <<>>
    [] geometry.geom_type = "MultiPolygon" ->
         \A i \in 1..Len(geometry.geoms) : geometry.geoms[i].exterior = <<>>
    [] OTHER -> geometry.coords = <<>>

\* Every coordinate pair of a geometry.
Coords(geometry) ==
  CASE geometry.geom_type = "Polygon" ->
         Range(geometry.exterior) \cup Range(Flatten(geometry.interiors))
    [] geometry.geom_type = "MultiPolygon" ->
         UNION {Range(geometry.geoms[i].exterior)
                  \cup Range(Flatten(geometry.geoms[i].interiors)) :
                i \in 1..Len(geometry.geoms)}
    [] OTHER -> Range(geometry.coords)

\* geometry.bounds: (minx, miny, maxx, maxy) of a non-empty geometry.
bounds(geometry) ==
  LET xs == {p[1] : p \in Coords(geometry)}
      ys == {p[2] : p \in Coords(geometry)}
  IN  <<Min(xs), Min(ys), Max(xs), Max(ys)>>

\* Twice the area a ring encloses (the shoelace formula).
RingArea2(ring) ==
  Abs(SumSeq([i \in 1..(Len(ring) - 1) |->
                ring[i][1] * ring[i + 1][2] - ring[i + 1][1] * ring[i][2]]))

-----------------------------------------------------------------------------
(* count_vertices *)

\* count_vertices with the interior rings forgotten.
count_vertices_exterior(geometry) ==
  IF is_empty(geometry) THEN 0
  ELSE IF geometry.geom_type = "Polygon" THEN Len(geometry.exterior)
  ELSE IF geometry.geom_type = "MultiPolygon" THEN
    SumSeq([i \in 1..Len(geometry.geoms) |-> Len(geometry.geoms[i].exterior)])
  ELSE 0

RECURSIVE count_vertices(_)
count_vertices(geometry) ==
  IF is_empty(geometry) THEN 0
  ELSE IF geometry.geom_type = "Polygon" THEN
    SumSeq([i \in 1..(1 + Len(geometry.interiors)) |->
              Len((<<geometry.exterior>> \o geometry.interiors)[i])])
  ELSE IF geometry.geom_type = "MultiPolygon" THEN
    SumSeq([i \in 1..Len(geometry.geoms) |-> count_vertices(geometry.geoms[i])])
  ELSE 0

-----------------------------------------------------------------------------
(* shapely.ops.split *)

\* (a + b)/2, rounded to a representable coordinate.
Mid(a, b) == (a + b) \div 2

\* The point of the edge from p to q whose coordinate on `axis` is m.
Cross(p, q, axis, m) ==
  LET o == 3 - axis
      c == p[o] + ((q[o] - p[o]) * (m - p[axis])) \div (q[axis] - p[axis])
  IN  IF axis = 1 THEN <<m, c>> ELSE <<c, m>>

Inside(p, axis, m, side) ==
  IF side = "low" THEN p[axis] <= m ELSE p[axis] >= m

RECURSIVE ClipFrom(_, _, _, _, _)
\* The vertices, from edge i on, of the part of a ring on one side of the
\* line coordinate[axis] = m: each vertex on that side, and the point where
\* an edge crosses the line.
ClipFrom(ring, i, axis, m, side) ==
  IF i >= Len(ring) THEN <<>>
  ELSE LET p == ring[i]
           q == ring[i + 1]
           pin == Inside(p, axis, m, side)
           qin == Inside(q, axis, m, side)
       IN  (IF pin THEN <<p>> ELSE <<>>)
             \o (IF pin # qin /\ p[axis] # m /\ q[axis] # m
                 THEN <<Cross(p, q, axis, m)>> ELSE <<>>)
             \o ClipFrom(ring, i + 1, axis, m, side)

\* The closed ring of the part of a ring on one side of the line.
Clip(ring, axis, m, side) ==
  LET open == ClipFrom(ring, 1, axis, m, side)
  IN  IF open = <<>> THEN <<>> ELSE Append(open, open[1])

\* The faces polygonize finds in the union of a polygon's boundary and the
\* line, kept when the polygon contains them: the parts of the polygon on
\* either side of the line when the line runs across the whole polygon, the
\* polygon itself when it does not, and in both cases only the faces that
\* enclose an area.  For a polygon without holes whose exterior is convex.
split_polygon_with_line(poly, line) ==
  LET axis == IF line[1][1] = line[2][1] THEN 1 ELSE 2
      o == 3 - axis
      m == line[1][axis]
      b == bounds(poly)
      across == /\ line[1] # line[2]
                /\ Min({line[1][o], line[2][o]}) <= b[o]
                /\ Max({line[1][o], line[2][o]}) >= b[o + 2]
      faces == IF across
               THEN <<Clip(poly.exterior, axis, m, "low"),
                      Clip(poly.exterior, axis, m, "high")>>
               ELSE <<poly.exterior>>
  IN  SelectSeq([i \in 1..Len(faces) |-> Polygon(faces[i], <<>>, TRUE)],
                LAMBDA f : RingArea2(f.exterior) > 0)

\* shapely.ops.split(geometry, line): either raises, or returns a
\* GeometryCollection of the pieces.  A MultiPolygon is split part by part.
shapely_split(geometry, line) ==
  CASE geometry.geom_type = "Polygon" /\ ~geometry.valid ->
         [raised |-> TRUE, geoms |-> <<>>]
    [] geometry.geom_type = "Polygon" /\ geometry.valid
         /\ geometry.interiors = <<>> ->
         [raised |-> FALSE, geoms |-> split_polygon_with_line(geometry, line)]
    [] geometry.geom_type = "MultiPolygon"
         /\ \E i \in 1..Len(geometry.geoms) : ~geometry.geoms[i].valid ->
         [raised |-> TRUE, geoms |-> <<>>]
    [] geometry.geom_type = "MultiPolygon"
         /\ \A i \in 1..Len(geometry.geoms) :
              geometry.geoms[i].valid /\ geometry.geoms[i].interiors = <<>> ->
         [raised |-> FALSE,
          geoms |-> Flatten([i \in 1..Len(geometry.geoms) |->
                      split_polygon_with_line(geometry.geoms[i], line)])]
    [] geometry.geom_type \notin {"Polygon", "MultiPolygon"} ->
         [raised |-> TRUE, geoms |-> <<>>]

-----------------------------------------------------------------------------
(* split_geometry *)

\* split_line with `dx > dy` for `dx >= dy`.
split_line_strict(geometry) ==
  LET minx == bounds(geometry)[1]
      miny == bounds(geometry)[2]
      maxx == bounds(geometry)[3]
      maxy == bounds(geometry)[4]
      dx == maxx - minx
      dy == maxy - miny
  IN  IF dx > dy
      THEN <<<<Mid(minx, maxx), miny>>, <<Mid(minx, maxx), maxy>>>>
      ELSE <<<<minx, Mid(miny, maxy)>>, <<maxx, Mid(miny, maxy)>>>>

\* The cut line split_geometry builds from the bounding box.
split_line(geometry) ==
  LET minx == bounds(geometry)[1]
      miny == bounds(geometry)[2]
      maxx == bounds(geometry)[3]
      maxy == bounds(geometry)[4]
      dx == maxx - minx
      dy == maxy - miny
  IN  IF dx >= dy
      THEN <<<<Mid(minx, maxx), miny>>, <<Mid(minx, maxx), maxy>>>>
      ELSE <<<<minx, Mid(miny, maxy)>>, <<maxx, Mid(miny, maxy)>>>>

\* split_geometry without its try/except.
split_geometry_uncaught(geometry) ==
  LET result == shapely_split(geometry, split_line(geometry))
  IN  [raised |-> result.raised, value |-> result.geoms]

\* split_geometry(geometry): [raised, value], value the list it returns.
split_geometry(geometry) ==
  LET result == shapely_split(geometry, split_line(geometry))
  IN  IF result.raised
      THEN [raised |-> FALSE, value |-> <<geometry>>]
      ELSE [raised |-> FALSE, value |-> result.geoms]

-----------------------------------------------------------------------------
(* recursive_split *)

\* queue.pop(0) for queue.pop().
pop_first(q) == [geom |-> Head(q), queue |-> Tail(q)]

\* geom = queue.pop(): the geometry popped and the list left.
pop(q) == [geom |-> Last(q), queue |-> Front(q)]

\* `<` for `<=`.
within_bound_strict(geom, maxv) == count_vertices(geom) < maxv

\* The test of `if count_vertices(geom) <= max_vertices`.
within_bound(geom, maxv) == count_vertices(geom) <= maxv

\* `len(parts) >= 1` for `len(parts) == 1`.
is_unsplittable_any(parts) == Len(parts) >= 1

\* `len(parts) == 0` for `len(parts) == 1`.
is_unsplittable_none(parts) == Len(parts) = 0

\* The test of `if len(parts) == 1`.
is_unsplittable(parts) == Len(parts) = 1

\* queue.extend(parts[1:]) for queue.extend(parts).
extend_tail(q, parts) == q \o Tail(parts)

\* queue.extend(parts)
extend(q, parts) == q \o parts

\* results.append(geom)
append(r, geom) == Append(r, geom)

\* One iteration of `while queue:` on the lists q and r: the lists after it,
\* whether an exception left the loop, and the cut it asked for, if any.
loop_body(q, r, maxv) ==
  LET popped == pop(q)
      geom == popped.geom
  IN  IF within_bound(geom, maxv)
      THEN [queue |-> popped.queue, results |-> append(r, geom),
            raised |-> FALSE, cut |-> <<>>]
      ELSE LET parts == split_geometry(geom)
               cut == <<[geometry |-> geom, line |-> split_line(geom)]>>
           IN  IF parts.raised
               THEN [queue |-> popped.queue, results |-> r,
                     raised |-> TRUE, cut |-> cut]
               ELSE IF is_unsplittable(parts.value)
               THEN [queue |-> popped.queue, results |-> append(r, geom),
                     raised |-> FALSE, cut |-> cut]
               ELSE [queue |-> extend(popped.queue, parts.value),
                     results |-> r, raised |-> FALSE, cut |-> cut]

-----------------------------------------------------------------------------
(* The inputs *)

\* The ring of the rectangle with corners (x0, y0) and (x1, y1).
Rect(x0, y0, x1, y1) ==
  <<<<x0, y0>>, <<x0, y1>>, <<x1, y1>>, <<x1, y0>>, <<x0, y0>>>>

Box(x0, y0, x1, y1) == Polygon(Rect(x0, y0, x1, y1), <<>>, TRUE)

\* The ring of the rectangle from (0, 0) to (w, 1) with a vertex at every
\* unit along its long sides.
DenseRing(w) ==
  [i \in 1..(w + 1) |-> <<i - 1, 1>>]
    \o [i \in 1..(w + 1) |-> <<w + 1 - i, 0>>]
    \o <<<<0, 1>>>>

Boxes ==
  {Box(x0, y0, x1, y1) : x0 \in 0..1, y0 \in 0..1,
                         x1 \in 2..MaxCoord, y1 \in 2..MaxCoord}
    \cup {Box(0, 0, 1, 1), Box(1, 1, 2, 2)}

\* A polygon with a hole; one whose hole lies outside its shell and one whose
\* shell crosses itself, both invalid; two without area.
Holed == Polygon(Rect(0, 0, 3, 3), <<Rect(1, 1, 2, 2)>>, TRUE)

HoleOutside == Polygon(Rect(0, 0, 1, 1), <<Rect(2, 2, 3, 3)>>, FALSE)

BowTie ==
  Polygon(<<<<0, 0>>, <<2, 2>>, <<2, 0>>, <<0, 2>>, <<0, 0>>>>, <<>>, FALSE)

Sliver == Polygon(<<<<0, 0>>, <<1, 0>>, <<2, 0>>, <<0, 0>>>>, <<>>, TRUE)

Dot == Polygon(<<<<1, 1>>, <<1, 1>>, <<1, 1>>, <<1, 1>>>>, <<>>, TRUE)

Polygons ==
  Boxes \cup {Polygon(DenseRing(w), <<>>, TRUE) : w \in 2..MaxCoord}
        \cup {Holed, HoleOutside, BowTie, Sliver, Dot, Polygon(<<>>, <<>>, TRUE)}

MultiPolygons ==
  {MultiPolygon(<<>>),
   MultiPolygon(<<Box(0, 0, 1, 1)>>),
   MultiPolygon(<<Box(0, 0, 2, 2)>>),
   MultiPolygon(<<Box(0, 0, 1, 1), Box(2, 0, 3, 1)>>),
   MultiPolygon(<<Box(0, 0, 1, 2), Box(2, 0, 3, 1), Box(2, 2, 3, 3)>>),
   MultiPolygon(<<Box(0, 0, 2, 1), Sliver>>),
   MultiPolygon(<<Box(0, 0, 1, 1), BowTie>>),
   MultiPolygon(<<Holed, Box(4, 0, 5, 1)>>)}

Geometries ==
  Polygons \cup MultiPolygons \cup {Point(<<<<1, 1>>>>), Point(<<>>)}

\* The values of max_vertices.
MaxVerticesChoices == {3, 5, 7, 10, 15}

HasHoles(geometry) ==
  CASE geometry.geom_type = "Polygon" -> geometry.interiors # <<>>
    [] geometry.geom_type = "MultiPolygon" ->
         \E i \in 1..Len(geometry.geoms) : geometry.geoms[i].interiors # <<>>
    [] OTHER -> FALSE

\* The cut of a valid polygon with holes is not modelled: such a polygon is
\* an input only with a bound that accepts it as it is.
Modelled(geometry, maxv) ==
  HasHoles(geometry) /\ geometry # HoleOutside
    => count_vertices(geometry) <= maxv

-----------------------------------------------------------------------------
(* The state *)

VARIABLES
  pc,            \* per call: "idle", "loop", "done", or "raised"
  geometry,      \* per call: the argument geometry
  max_vertices,  \* per call: the argument max_vertices
  queue,         \* per call: the local list queue
  results,       \* per call: the local list results
  cuts,          \* per call: the last cut split_geometry asked shapely for
  iterations     \* per call: the iterations of the while loop so far

vars == <<pc, geometry, max_vertices, queue, results, cuts, iterations>>

Init ==
  /\ pc = [c \in Calls |-> "idle"]
  /\ geometry = [c \in Calls |-> Point(<<>>)]
  /\ max_vertices = [c \in Calls |-> 0]
  /\ queue = [c \in Calls |-> <<>>]
  /\ results = [c \in Calls |-> <<>>]
  /\ cuts = [c \in Calls |-> <<>>]
  /\ iterations = [c \in Calls |-> 0]

\* recursive_split(g, maxv) is called: queue = [geometry], results = [].
Call(c, g, maxv) ==
  /\ pc[c] = "idle"
  /\ Modelled(g, maxv)
  /\ pc' = [pc EXCEPT ![c] = "loop"]
  /\ geometry' = [geometry EXCEPT ![c] = g]
  /\ max_vertices' = [max_vertices EXCEPT ![c] = maxv]
  /\ queue' = [queue EXCEPT ![c] = <<g>>]
  /\ results' = [results EXCEPT ![c] = <<>>]
  /\ UNCHANGED <<cuts, iterations>>

\* Iterate with `results` a module-level list that every call appends to.
IterateShared(c) ==
  /\ pc[c] = "loop"
  /\ queue[c] # <<>>
  /\ LET out == loop_body(queue[c], results[c], max_vertices[c])
     IN  /\ queue' = [queue EXCEPT ![c] = out.queue]
         /\ results' = [d \in Calls |-> out.results]
         /\ pc' = [pc EXCEPT ![c] = IF out.raised THEN "raised" ELSE "loop"]
         /\ cuts' = [cuts EXCEPT ![c] = IF out.cut = <<>> THEN @ ELSE out.cut]
  /\ iterations' = [iterations EXCEPT ![c] = @ + 1]
  /\ UNCHANGED <<geometry, max_vertices>>

\* One iteration of the while loop.
Iterate(c) ==
  /\ pc[c] = "loop"
  /\ queue[c] # <<>>
  /\ LET out == loop_body(queue[c], results[c], max_vertices[c])
     IN  /\ queue' = [queue EXCEPT ![c] = out.queue]
         /\ results' = [results EXCEPT ![c] = out.results]
         /\ pc' = [pc EXCEPT ![c] = IF out.raised THEN "raised" ELSE "loop"]
         /\ cuts' = [cuts EXCEPT ![c] = IF out.cut = <<>> THEN @ ELSE out.cut]
  /\ iterations' = [iterations EXCEPT ![c] = @ + 1]
  /\ UNCHANGED <<geometry, max_vertices>>

\* The loop ends on an empty queue: return results.
Return(c) ==
  /\ pc[c] = "loop"
  /\ queue[c] = <<>>
  /\ pc' = [pc EXCEPT ![c] = "done"]
  /\ UNCHANGED <<geometry, max_vertices, queue, results, cuts, iterations>>

\* One call.
Next ==
  \/ \E g \in Geometries, maxv \in MaxVerticesChoices : Call("a", g, maxv)
  \/ Iterate("a")
  \/ Return("a")

Spec == Init /\ [][Next]_vars

\* The inputs of the concurrent calls.
ConcGeometries ==
  {Box(0, 0, 2, 2), Box(0, 0, MaxCoord, 2), Sliver, BowTie,
   MultiPolygon(<<Box(0, 0, 1, 1), Box(2, 0, 3, 1)>>)}

ConcMaxVerticesChoices == {3, 5}

\* Two calls whose loop iterations interleave in any order.
ConcNext ==
  \E c \in Calls :
    \/ \E g \in ConcGeometries, maxv \in ConcMaxVerticesChoices : Call(c, g, maxv)
    \/ Iterate(c)
    \/ Return(c)

ConcSpec == Init /\ [][ConcNext]_vars

-----------------------------------------------------------------------------
(* The properties *)

\* The calls that have started.
Started == {c \in Calls : pc[c] # "idle"}

\* Every geometry a call holds: its argument, its worklist and its results.
Held(c) == {geometry[c]} \cup Range(queue[c]) \cup Range(results[c])

\* C1.  Bound satisfaction: every fragment in the results of a call has at
\* most max_vertices vertices, or is one that split_geometry returns as a
\* single-element sequence.
BoundSatisfaction ==
  \A c \in Started : \A i \in 1..Len(results[c]) :
    \/ count_vertices(results[c][i]) <= max_vertices[c]
    \/ Len(split_geometry(results[c][i]).value) = 1

\* A call has returned several fragments, one of them above the bound.
BoundSatisfactionWitness ==
  /\ pc["a"] = "done"
  /\ Len(results["a"]) >= 2
  /\ \E i \in 1..Len(results["a"]) :
       count_vertices(results["a"][i]) > max_vertices["a"]

\* C2.  Worklist accounting: an iteration either appends the popped geometry
\* to the results and pushes nothing, or leaves the results alone and
\* pushes the parts split_geometry returned for it, of which there is at
\* least one; the popped geometry is never dropped.
WorklistAccounting ==
  [][\A c \in Calls :
       pc[c] = "loop" /\ queue[c] # <<>>
         /\ <<queue[c], results[c]>> # <<queue'[c], results'[c]>>
       => LET geom == Last(queue[c])
              rest == Front(queue[c])
              parts == split_geometry(geom).value
          IN  \/ /\ results'[c] = Append(results[c], geom)
                 /\ queue'[c] = rest
              \/ /\ results'[c] = results[c]
                 /\ parts # <<>>
                 /\ queue'[c] = rest \o parts]_vars

RECURSIVE Area2(_)
\* Twice the area of a geometry.
Area2(g) ==
  CASE g.geom_type = "Polygon" ->
         RingArea2(g.exterior)
           - SumSeq([i \in 1..Len(g.interiors) |-> RingArea2(g.interiors[i])])
    [] g.geom_type = "MultiPolygon" ->
         SumSeq([i \in 1..Len(g.geoms) |-> Area2(g.geoms[i])])
    [] OTHER -> 0

RECURSIVE Weight(_)
\* A number of iterations that suffices for a geometry: one for a geometry
\* without area, one less than twice its area (in squares of the smallest
\* representable size) for a polygon, and one more than its polygons need
\* for a MultiPolygon.
Weight(g) ==
  CASE g.geom_type = "Polygon" ->
         IF Area2(g) > 0 THEN 2 * Area2(g) - 1 ELSE 1
    [] g.geom_type = "MultiPolygon" ->
         1 + SumSeq([i \in 1..Len(g.geoms) |-> Weight(g.geoms[i])])
    [] OTHER -> 1

\* C3.  Termination: the iterations a call has made and the iterations its
\* worklist can still need never exceed the number that suffices for its
\* argument, so the worklist empties after finitely many iterations, also
\* when every part of a split exceeds the bound.
Termination ==
  \A c \in Calls :
    pc[c] \in {"loop", "done"}
      => iterations[c] + SumSeq([i \in 1..Len(queue[c]) |-> Weight(queue[c][i])])
           <= Weight(geometry[c])

\* The call on the square from (0, 0) to (2, 2) with max_vertices = 3, every
\* part of which exceeds the bound, has returned its four unit squares.
TerminationWitness ==
  /\ pc["a"] = "done"
  /\ geometry["a"] = Box(0, 0, 2, 2)
  /\ max_vertices["a"] = 3
  /\ Len(results["a"]) = 4
  /\ \A i \in 1..4 : count_vertices(results["a"][i]) > 3

\* C4.  Identity on an input within the bound: split_geometry is never
\* invoked, and the call returns the one-element sequence of its argument.
IdentityOnSmallInput ==
  \A c \in Started :
    count_vertices(geometry[c]) <= max_vertices[c]
      => /\ cuts[c] = <<>>
         /\ pc[c] # "raised"
         /\ pc[c] = "done" => results[c] = <<geometry[c]>>

\* A call has returned on a polygon with exactly max_vertices vertices.
IdentityOnSmallInputWitness ==
  /\ pc["a"] = "done"
  /\ geometry["a"].geom_type = "Polygon"
  /\ max_vertices["a"] > 0
  /\ count_vertices(geometry["a"]) = max_vertices["a"]

\* C5.  Failure absorption: no call ends in an exception, and a geometry on
\* which shapely's split raised is one split_geometry returns alone and
\* unmodified, and is among the results.
FailureAbsorption ==
  \A c \in Calls :
    /\ pc[c] # "raised"
    /\ cuts[c] # <<>> /\ shapely_split(cuts[c][1].geometry, cuts[c][1].line).raised
         => /\ split_geometry(cuts[c][1].geometry)
                 = [raised |-> FALSE, value |-> <<cuts[c][1].geometry>>]
            /\ \E i \in 1..Len(results[c]) : results[c][i] = cuts[c][1].geometry

\* A call has returned after shapely's split raised on its argument.
FailureAbsorptionWitness ==
  /\ pc["a"] = "done"
  /\ cuts["a"] # <<>>
  /\ shapely_split(cuts["a"][1].geometry, cuts["a"][1].line).raised
  /\ results["a"] = <<geometry["a"]>>

\* C6.  Conservation of area: at every iteration the areas of the geometries
\* on the worklist and in the results add up to the area of the argument.
ConservationOfArea ==
  \A c \in Calls :
    pc[c] \in {"loop", "done"}
      => SumSeq([i \in 1..Len(queue[c]) |-> Area2(queue[c][i])])
           + SumSeq([i \in 1..Len(results[c]) |-> Area2(results[c][i])])
         = Area2(geometry[c])

\* A call has returned several fragments of an argument that has an area.
ConservationOfAreaWitness ==
  /\ pc["a"] = "done"
  /\ Len(results["a"]) >= 3
  /\ Area2(geometry["a"]) > 0

\* C7.  Cut-line selection: the line handed to shapely's split is vertical
\* through the middle of the bounding box, from miny to maxy, when
\* dx >= dy, and horizontal through it, from minx to maxx, otherwise.
CutLineSelection ==
  \A c \in Calls :
    cuts[c] # <<>>
      => LET b == bounds(cuts[c][1].geometry)
             from == cuts[c][1].line[1]
             to == cuts[c][1].line[2]
         IN  IF b[3] - b[1] >= b[4] - b[2]
             THEN /\ from[1] = Mid(b[1], b[3]) /\ to[1] = Mid(b[1], b[3])
                  /\ from[2] = b[2] /\ to[2] = b[4]
             ELSE /\ from[2] = Mid(b[2], b[4]) /\ to[2] = Mid(b[2], b[4])
                  /\ from[1] = b[1] /\ to[1] = b[3]

\* A geometry as wide as it is high has been cut, by a vertical line.
CutLineSelectionWitness ==
  /\ cuts["a"] # <<>>
  /\ LET b == bounds(cuts["a"][1].geometry)
     IN  /\ b[3] - b[1] = b[4] - b[2]
         /\ b[3] - b[1] > 1
         /\ cuts["a"][1].line[1][1] = cuts["a"][1].line[2][1]
         /\ cuts["a"][1].line[1][2] # cuts["a"][1].line[2][2]

\* The coordinate-sequence lengths of a polygon's rings, added up.
RingLengths(poly) ==
  Len(poly.exterior) + Len(Flatten(poly.interiors))

\* C8.  Vertex count: 0 for an empty geometry and for a kind other than
\* Polygon and MultiPolygon; for a Polygon the lengths of its exterior and
\* interior rings added up; for a MultiPolygon the sum of count_vertices
\* over its polygons; never negative.
VertexCount ==
  \A c \in Started : \A g \in Held(c) :
    /\ count_vertices(g) >= 0
    /\ is_empty(g) => count_vertices(g) = 0
    /\ g.geom_type \notin {"Polygon", "MultiPolygon"} => count_vertices(g) = 0
    /\ g.geom_type = "Polygon" /\ ~is_empty(g)
         => count_vertices(g) = RingLengths(g)
    /\ g.geom_type = "MultiPolygon"
         => /\ count_vertices(g)
                 = SumSeq([i \in 1..Len(g.geoms) |-> count_vertices(g.geoms[i])])
            /\ \A i \in 1..Len(g.geoms) :
                 count_vertices(g.geoms[i]) = RingLengths(g.geoms[i])

\* A call has returned on a MultiPolygon one polygon of which has a hole.
VertexCountWitness ==
  /\ pc["a"] = "done"
  /\ geometry["a"].geom_type = "MultiPolygon"
  /\ Len(geometry["a"].geoms) = 2
  /\ geometry["a"].geoms[1].interiors # <<>>
  /\ count_vertices(geometry["a"]) = 15

RECURSIVE run_alone(_, _, _)
\* The loop of recursive_split run from the lists q and r on its own.
run_alone(q, r, maxv) ==
  IF q = <<>> THEN r
  ELSE LET out == loop_body(q, r, maxv)
       IN  run_alone(out.queue, out.results, maxv)

\* C9.  Independence: whatever the interleaving of two calls, each call is
\* at every iteration on the way to the results it returns when run alone,
\* and returns them.
Independence ==
  \A c \in Calls :
    /\ pc[c] = "loop"
         => run_alone(queue[c], results[c], max_vertices[c])
              = run_alone(<<geometry[c]>>, <<>>, max_vertices[c])
    /\ pc[c] = "done"
         => results[c] = run_alone(<<geometry[c]>>, <<>>, max_vertices[c])
    /\ pc[c] # "raised"

\* Two calls on different geometries are both in the middle of their loops.
IndependenceWitness ==
  /\ pc["a"] = "loop" /\ pc["b"] = "loop"
  /\ geometry["a"] # geometry["b"]
  /\ results["a"] # <<>> /\ results["b"] # <<>>
  /\ queue["a"] # <<>> /\ queue["b"] # <<>>

RECURSIVE reverse_depth_first(_, _)
\* The fragments of the split tree of g, the parts of every split taken
\* last to first.
reverse_depth_first(g, maxv) ==
  IF count_vertices(g) <= maxv THEN <<g>>
  ELSE LET parts == split_geometry(g).value
           n == Len(parts)
       IN  IF n = 1 THEN <<g>>
           ELSE Flatten([i \in 1..n |->
                           reverse_depth_first(parts[n + 1 - i], maxv)])

\* C10.  LIFO order: the results so far, followed by the fragments of the
\* worklist's geometries taken from its end to its start, are the fragments
\* of the argument in reverse-part depth-first order.
LifoOrder ==
  \A c \in Calls :
    pc[c] \in {"loop", "done"}
      => results[c]
           \o Flatten([i \in 1..Len(queue[c]) |->
                reverse_depth_first(queue[c][Len(queue[c]) + 1 - i],
                                    max_vertices[c])])
         = reverse_depth_first(geometry[c], max_vertices[c])

\* A call has returned at least three fragments, the first of them from the
\* last part of the first split.
LifoOrderWitness ==
  /\ pc["a"] = "done"
  /\ Len(results["a"]) >= 3
  /\ LET parts == split_geometry(geometry["a"]).value
     IN  /\ Len(parts) >= 2
         /\ results["a"][1] # results["a"][Len(results["a"])]
         /\ results["a"][1]
              = reverse_depth_first(Last(parts), max_vertices["a"])[1]

====
